---------------------------- MODULE Spec2Model ----------------------------
(***************************************************************************)
(* Model of the reactor core of the tunnelling proxy, src/src/proxy.rs:    *)
(* Server::run / accept / dispatch / drop_zombies / drop_pump / fan_out /  *)
(* fan_in.  One dispatch call is modelled step by step: the event scan     *)
(* (one action per event of the batch), the insertion of the new peers,    *)
(* the drain of the zombie queue and the removal of the stale endpoints.   *)
(* HashMap / HashSet iteration order is arbitrary in Rust, so every loop   *)
(* over such a collection picks its next element nondeterministically.     *)
(*                                                                         *)
(* The connection engine (Pump: drain, flush, pull, push, interest) is not *)
(* part of the source at hand; its outcomes are inputs of the event        *)
(* handler and its buffers follow the engine contract.  The reactor is     *)
(* outside the source too: a batch holds at most one event of the listener *)
(* and one per endpoint whose registration was armed when poll.poll        *)
(* returned, in any order, with any readiness, and may name tokens that    *)
(* are not in the table (the handler provides for them).                   *)
(* The table is a slab::Slab: insert takes the slot vacated last, remove   *)
(* panics on a vacant slot.  Reactor calls                                 *)
(* (register, reregister, deregister) are taken to succeed: an Err from    *)
(* them leaves dispatch and run through `?` and ends the process.  A panic *)
(* (Slab::remove on a vacant key, unwrap on a missing peer) ends the       *)
(* process too: pc = "panic" and `fault` names it.                         *)
(***************************************************************************)
EXTENDS Integers, Sequences, FiniteSets, TLC

\* ------------------------------------------------------------------ bounds
\* Connections of one run: those sock.accept() hands over and the peers the
\* drains yield.
MaxConns == 3
\* Bytes the drains of all endpoints produce in one run.
MaxBytes == 2

\* ------------------------------------------------------- program constants
\* const MAX_PUMPS: usize = 2048, scaled down.
MAX_PUMPS == 2

\* The slab keys a run can see: the slab hands out a fresh key only when it
\* has no vacant one, so it never needs more keys than the run has connections.
Tok == 0 .. (MaxConns - 1)
\* Token(usize::MAX - 1): a token no slab slot ever has.
ROOT_TOKEN == MaxConns

VARIABLES
  pc,         \* position of Server::run / dispatch
  fault,      \* "none", or the panic that ended the process
  env,        \* what the network will still deliver: connections, bytes
  pumps,      \* occupied slots of the slab (Arena Table)
  free,       \* the slab's list of vacant slots, last vacated first
  poll,       \* tokens whose socket is registered with the reactor
  armed,      \* registered tokens whose one-shot registration is armed
  links,      \* HashMap<Token, Token>
  zombie,     \* HashSet<Token>
  orphan,     \* tokens whose endpoint lost its linked peer to drop_pump
  inb,        \* per endpoint: bytes its drains produced, waiting for pull()
  outb,       \* per endpoint: outbound send buffer, filled by push()
  got,        \* per endpoint: all the bytes its drains have produced
  sent,       \* per endpoint: all the bytes push() has put into its buffer
  batch,      \* tokens that can have an event in the batch being scanned
  events,     \* tokens of the events of this batch already iterated
  missing,    \* whether an event of this scan had a token not in the table
  stale,      \* dispatch's local `stale`
  new_peers,  \* keys of dispatch's local `new_peers`
  yielded,    \* per owner: peers its drain loop yielded in this batch
  hupLinked,  \* <<d, c>>: d got hangup/error readiness while linked to c
  calm,       \* tokens whose event had no hangup/error and no fatal result
  fanned,     \* what the last event's fan_out pushed: <<to, before, bytes>>
  inserted,   \* <<owner, token>>: peers inserted by this dispatch
  todo        \* elements the current post-scan loop still has to visit

tableVars == <<pumps, free, poll, armed, links, zombie, orphan>>
bufVars == <<inb, outb, got, sent>>
scanVars ==
  <<batch, events, missing, stale, new_peers, yielded, hupLinked, calm, fanned>>

vars == <<pc, fault, env, tableVars, bufVars, scanVars, inserted, todo>>

\* -------------------------------------------------------------- HashMap ops
MapRemove(m, k) == [x \in (DOMAIN m) \ {k} |-> m[x]]
MapInsert(m, k, v) == [x \in (DOMAIN m) \cup {k} |-> IF x = k THEN v ELSE m[x]]

\* seen.insert(token): every token of the batch but the listener's.
seen == events \ {ROOT_TOKEN}

\* The network of one run.  Payload bytes do not decide what happens to the
\* table, the links or the zombie queue (fan_out and fan_in only move them),
\* so a run either opens several connections and carries no payload, or opens
\* one tunnel and carries payload through it, or opens several connections
\* and carries one byte, which shows whose buffer an endpoint's bytes end in.
Environments ==
  { [conns |-> MaxConns, bytes |-> 0],
    [conns |-> 2, bytes |-> MaxBytes],
    [conns |-> MaxConns, bytes |-> 1] }

\* ---------------------------------------------------------- Server::new
Init ==
  /\ pc = "idle"
  /\ fault = "none"
  /\ env \in Environments
  /\ pumps = {}
  /\ free = <<>>
  /\ poll = {}
  /\ armed = {}
  /\ links = <<>>
  /\ zombie = {}
  /\ orphan = {}
  /\ inb = [t \in Tok |-> <<>>]
  /\ outb = [t \in Tok |-> <<>>]
  /\ got = [t \in Tok |-> <<>>]
  /\ sent = [t \in Tok |-> <<>>]
  /\ batch = {}
  /\ events = {}
  /\ missing = FALSE
  /\ stale = {}
  /\ new_peers = {}
  /\ yielded = [t \in Tok |-> 0]
  /\ hupLinked = {}
  /\ calm = {}
  /\ fanned = <<>>
  /\ inserted = {}
  /\ todo = {}

\* ------------------------------------------------- Server::run, one poll
\* poll.poll returns a batch and dispatch starts, its stale, seen and new_peers
\* empty.
Poll ==
  /\ pc = "idle"
  /\ pc' = "scan"
  /\ batch' = armed
  /\ UNCHANGED <<fault, env, tableVars, bufVars, events, missing, stale,
                 new_peers, yielded, hupLinked, calm, fanned, inserted, todo>>

\* ------------------------------------------------------------- the slab
\* Slab::insert: the key is the slab's `next`, the slot vacated last, or a
\* fresh slot at the end of the entries when none is vacant.
SlabKey == IF free # <<>> THEN Head(free) ELSE Cardinality(pumps)

SlabInsert(idx) ==
  /\ idx = SlabKey
  /\ pumps' = pumps \cup {idx}
  /\ free' = IF free # <<>> THEN Tail(free) ELSE free

\* Slab::remove of an occupied slot: the slot becomes the head of the vacant
\* list.
SlabRemove(token) ==
  /\ pumps' = pumps \ {token}
  /\ free' = <<token>> \o free

\* ------------------------------------------------------- Server::accept
\* poll.register(sock, token, interest, edge | oneshot)
register(registered, token) == registered \cup {token}

\* The capacity guard, sock.accept() (which may fail), slab insert, register.
accept ==
  IF Cardinality(pumps) > MAX_PUMPS
  THEN UNCHANGED <<pumps, free, poll, armed, env>>
  ELSE \E ok \in BOOLEAN :
         IF ok /\ env.conns > 0
         THEN \E idx \in Tok :
                /\ SlabInsert(idx)
                /\ poll' = register(poll, idx)
                /\ armed' = armed \cup {idx}
                /\ env' = [env EXCEPT !.conns = @ - 1]
         ELSE UNCHANGED <<pumps, free, poll, armed, env>>

\* dispatch, the event of the listener: token == ROOT_TOKEN.
AcceptEvent ==
  /\ pc = "scan"
  /\ ROOT_TOKEN \notin events
  /\ events' = events \cup {ROOT_TOKEN}
  /\ accept
  /\ UNCHANGED <<pc, fault, links, zombie, orphan, bufVars, batch, missing,
                 stale, new_peers, yielded, hupLinked, calm, fanned, inserted,
                 todo>>

\* ------------------------------------------------- connection engine
\* pull(): removes and returns the buffered bytes; push(): appends to the
\* outbound buffer.
pull(buf) == buf
push(buf, bytes) == buf \o bytes
\* drain(): successful drains add the n bytes read to the buffer pull() takes
\* from.  The bytes of a run are numbered in the order they are drained.
drain(buf, first, n) == buf \o [i \in 1 .. n |-> first + i]
\* flush(): successful flushes send the first k bytes of the outbound buffer.
flush(buf, k) == SubSeq(buf, k + 1, Len(buf))

\* The state one event handler works on.
Local ==
  [inb |-> inb, outb |-> outb, got |-> got, sent |-> sent,
   env |-> env, stale |-> stale,
   new_peers |-> new_peers, yielded |-> yielded, armed |-> armed,
   fanned |-> <<>>, fault |-> "none"]

\* The event of a one-shot registration disarms it until it is reregistered.
Fired(s, token) == [s EXCEPT !.armed = @ \ {token}]

\* The drain loop of a readable event: n bytes and y peers come out of the
\* successful drains, then the loop ends with WouldBlock or a fatal error.
\* new_peers.insert(token, peer_pump) keeps one pump per token.
DrainLoop(s, token, n, y, fatal) ==
  [s EXCEPT
     !.inb[token] = drain(@, MaxBytes - s.env.bytes, n),
     !.got[token] = drain(@, MaxBytes - s.env.bytes, n),
     !.env.bytes = @ - n,
     !.env.conns = @ - y,
     !.new_peers = IF y > 0 THEN @ \cup {token} ELSE @,
     !.yielded[token] = y,
     !.stale = IF fatal THEN @ \cup {token} ELSE @]

\* fan_out, were it to replace the peer's outbound buffer by the bytes pulled.
fan_out_overwrites(s, token, peer_token) ==
  LET buf == pull(s.inb[token])
      s1 == [s EXCEPT !.inb[token] = <<>>]
  IN  IF buf = <<>> THEN s1
      ELSE IF peer_token \notin pumps THEN [s1 EXCEPT !.fault = "unwrap"]
      ELSE [s1 EXCEPT !.outb[peer_token] = buf,
                      !.sent[peer_token] = @ \o buf,
                      !.armed = @ \cup {peer_token},
                      !.fanned = <<peer_token, s.outb[peer_token], buf>>]

\* Server::fan_out
fan_out(s, token, peer_token) ==
  LET buf == pull(s.inb[token])
      s1 == [s EXCEPT !.inb[token] = <<>>]
  IN  IF buf = <<>> THEN s1
      ELSE IF peer_token \notin pumps THEN [s1 EXCEPT !.fault = "unwrap"]
      ELSE [s1 EXCEPT !.outb[peer_token] = push(@, buf),
                      !.sent[peer_token] = @ \o buf,
                      !.armed = @ \cup {peer_token},
                      !.fanned = <<peer_token, s.outb[peer_token], buf>>]

\* Server::fan_in
fan_in(s, token, peer_token) ==
  IF peer_token \notin pumps THEN [s EXCEPT !.fault = "unwrap"]
  ELSE LET buf == pull(s.inb[peer_token])
           s1 == [s EXCEPT !.inb[peer_token] = <<>>]
       IN  IF buf = <<>> THEN s1
           ELSE [s1 EXCEPT !.outb[token] = push(@, buf),
                           !.sent[token] = @ \o buf,
                           !.armed = @ \cup {peer_token}]

\* The flush loop of a writable event: the successful flushes send the first k
\* bytes of the outbound buffer, then the loop ends with WouldBlock or a fatal
\* error.
FlushLoop(s, token, k, fatal) ==
  [s EXCEPT
     !.outb[token] = flush(@, k),
     !.stale = IF fatal THEN @ \cup {token} ELSE @]

\* The end of an event: hangup/error readiness marks stale, anything else
\* reregisters.
Rearm(s, token, hup) ==
  IF hup THEN [s EXCEPT !.stale = @ \cup {token}]
  ELSE [s EXCEPT !.armed = @ \cup {token}]

\* The whole handler of one event of a token present in the table.
Handle(token, readable, n, y, dfatal, writable, k, ffatal, hup) ==
  LET s0 == Fired(Local, token)
      s1 == IF readable THEN DrainLoop(s0, token, n, y, dfatal) ELSE s0
      s2 == IF readable /\ token \in DOMAIN links
            THEN fan_out(s1, token, links[token]) ELSE s1
      s3 == IF s2.fault = "none" /\ writable /\ token \in DOMAIN links
            THEN fan_in(s2, token, links[token]) ELSE s2
      s4 == IF s3.fault = "none" /\ writable
            THEN FlushLoop(s3, token, k, ffatal) ELSE s3
  IN  IF s4.fault = "none" THEN Rearm(s4, token, hup) ELSE s4

\* The lookup, were it to mark the token it does not find as stale.
slab_inconsistency_marks_stale(marked, token) == marked \cup {token}
\* self.pumps.get(token.0) is None: warn!("slab inconsistency"); continue.
slab_inconsistency(marked, token) == marked

\* dispatch, an event whose token is not in the table.
MissingEvent ==
  /\ pc = "scan"
  /\ \E token \in Tok \ pumps : stale' = slab_inconsistency(stale, token)
  /\ missing' = TRUE
  /\ UNCHANGED <<pc, fault, env, tableVars, bufVars, batch, events, new_peers,
                 yielded, hupLinked, calm, fanned, inserted, todo>>

\* dispatch, one event of the scan.  A batch holds one event per endpoint.
Event ==
  /\ pc = "scan"
  /\ \E token \in (batch \cap pumps) \ events :
       /\ events' = events \cup {token}
       /\ \E readable, writable, hup \in BOOLEAN :
         \E dfatal \in (IF readable THEN BOOLEAN ELSE {FALSE}) :
         \E ffatal \in (IF writable THEN BOOLEAN ELSE {FALSE}) :
         \E n \in 0 .. (IF readable THEN env.bytes ELSE 0) :
         \E y \in 0 .. (IF readable THEN env.conns ELSE 0) :
         \E k \in 0 .. (IF writable
                        THEN Len(outb[token])
                             + (IF token \in DOMAIN links /\ links[token] \in pumps
                                THEN Len(inb[links[token]]) ELSE 0)
                        ELSE 0) :
           LET s == Handle(token, readable, n, y, dfatal,
                           writable, k, ffatal, hup)
           IN  /\ inb' = s.inb
               /\ outb' = s.outb
               /\ got' = s.got
               /\ sent' = s.sent
               /\ env' = s.env
               /\ stale' = s.stale
               /\ new_peers' = s.new_peers
               /\ yielded' = s.yielded
               /\ armed' = s.armed
               /\ fanned' = s.fanned
               /\ fault' = s.fault
               /\ pc' = IF s.fault = "none" THEN "scan" ELSE "panic"
               /\ hupLinked' =
                    IF s.fault = "none" /\ hup /\ token \in DOMAIN links
                    THEN hupLinked \cup {<<token, links[token]>>}
                    ELSE hupLinked
               /\ calm' =
                    IF s.fault = "none" /\ ~hup /\ ~dfatal /\ ~ffatal
                    THEN calm \cup {token}
                    ELSE calm
  /\ UNCHANGED <<pumps, free, poll, links, zombie, orphan, batch, missing,
                 inserted, todo>>

\* ------------------------------------------------- dispatch, after the scan
\* The `for event in events` loop ends; the new_peers loop starts.
EndScan ==
  /\ pc = "scan"
  /\ pc' = "peers"
  /\ todo' = new_peers
  /\ batch' = {}
  /\ missing' = FALSE
  /\ UNCHANGED <<fault, env, tableVars, bufVars, events, stale, new_peers,
                 yielded, hupLinked, calm, fanned, inserted>>

\* One iteration of `for (owner, pump) in new_peers`: slab insert, both link
\* inserts, register.
InsertPeer(owner, idx) ==
  /\ SlabInsert(idx)
  /\ links' = MapInsert(MapInsert(links, idx, owner), owner, idx)
  /\ poll' = register(poll, idx)
  /\ armed' = armed \cup {idx}

NewPeer ==
  /\ pc = "peers"
  /\ \E owner \in todo :
       /\ todo' = todo \ {owner}
       /\ \E idx \in Tok :
            /\ InsertPeer(owner, idx)
            /\ inserted' = inserted \cup {<<owner, idx>>}
  /\ UNCHANGED <<pc, fault, env, zombie, orphan, bufVars, scanVars>>

\* Server::drop_zombies, up to its loop: nothing to do on an empty set, else
\* the set is copied into a Vec and cleared.
drop_zombies ==
  IF zombie = {}
  THEN /\ pc' = "stale"
       /\ todo' = stale
       /\ UNCHANGED zombie
  ELSE /\ pc' = "zombies"
       /\ todo' = zombie
       /\ zombie' = {}

BeginZombies ==
  /\ pc = "peers"
  /\ todo = {}
  /\ drop_zombies
  /\ UNCHANGED <<fault, env, pumps, free, poll, armed, links, orphan, bufVars,
                 scanVars, inserted>>

\* drop_pump, were it to leave the socket registered.
deregister_skipped(registered, token) == registered
\* poll.deregister(pump.sock())
deregister(registered, token) == registered \ {token}

\* Server::drop_pump.  Slab::remove panics on a vacant key.  `after` is where
\* the caller goes on when the call returns.
drop_pump(token, after) ==
  IF token \notin pumps
  THEN /\ pc' = "panic"
       /\ fault' = "remove"
       /\ UNCHANGED <<tableVars, bufVars>>
  ELSE /\ pc' = after
       /\ UNCHANGED fault
       /\ SlabRemove(token)
       /\ poll' = deregister(poll, token)
       /\ armed' = armed \ {token}
       /\ inb' = [inb EXCEPT ![token] = <<>>]
       /\ outb' = [outb EXCEPT ![token] = <<>>]
       /\ got' = [got EXCEPT ![token] = <<>>]
       /\ sent' = [sent EXCEPT ![token] = <<>>]
       /\ IF token \in DOMAIN links
          THEN LET peer_token == links[token]
               IN  /\ links' = MapRemove(MapRemove(links, token), peer_token)
                   /\ zombie' = zombie \cup {peer_token}
                   /\ orphan' = (orphan \ {token})
                                  \cup ({peer_token} \cap (pumps \ {token}))
          ELSE /\ UNCHANGED <<links, zombie>>
               /\ orphan' = orphan \ {token}

\* One iteration of drop_zombies' loop over the copied Vec; after the last one
\* dispatch's `for token in stale` starts.
DropZombie ==
  /\ pc = "zombies"
  /\ \E token \in todo :
       /\ drop_pump(token, IF todo = {token} THEN "stale" ELSE "zombies")
       /\ todo' = IF token \in pumps
                  THEN (IF todo = {token} THEN stale ELSE todo \ {token})
                  ELSE todo
  /\ UNCHANGED <<env, scanVars, inserted>>

\* One iteration of `for token in stale`.
DropStale ==
  /\ pc = "stale"
  /\ \E token \in todo :
       /\ drop_pump(token, "stale")
       /\ todo' = IF token \in pumps THEN todo \ {token} ELSE todo
  /\ UNCHANGED <<env, scanVars, inserted>>

\* dispatch returns Ok(()), its locals are dropped; run loops back to poll.poll.
Return ==
  /\ pc = "stale"
  /\ todo = {}
  /\ pc' = "idle"
  /\ events' = {}
  /\ stale' = {}
  /\ new_peers' = {}
  /\ yielded' = [t \in Tok |-> 0]
  /\ hupLinked' = {}
  /\ calm' = {}
  /\ fanned' = <<>>
  /\ inserted' = {}
  /\ UNCHANGED <<fault, env, tableVars, bufVars, batch, missing, todo>>

Next ==
  \/ Poll
  \/ AcceptEvent
  \/ MissingEvent
  \/ Event
  \/ EndScan
  \/ NewPeer
  \/ BeginZombies
  \/ DropZombie
  \/ DropStale
  \/ Return

Spec == Init /\ [][Next]_vars

\* dispatch has done all its work and is about to return.
Returning == pc = "stale" /\ todo = {}

IsPrefix(p, q) == Len(p) <= Len(q) /\ SubSeq(q, 1, Len(p)) = p

TypeOK ==
  /\ pc \in {"idle", "scan", "peers", "zombies", "stale", "panic"}
  /\ fault \in {"none", "remove", "unwrap"}
  /\ pumps \subseteq Tok
  /\ poll \subseteq Tok
  /\ DOMAIN links \subseteq Tok
  /\ \A t \in DOMAIN links : links[t] \in Tok
  /\ zombie \subseteq Tok

\* ========================================================== properties

\* The token one Event step handles, as a set (empty on any other step).
Handled == IF pc = "scan" THEN (events' \ events) \ {ROOT_TOKEN} ELSE {}

\* The tokens one step removes from the table.
Removed == pumps \ pumps'

\* C1: no token is removed twice: drop_pump is never called, from the zombie
\* loop or from the stale loop, on a token whose slot is vacant (Slab::remove
\* panics on such a call).
C1_NoDoubleRemoval == fault # "remove"

\* C2: link symmetry between dispatch cycles: links maps a to b iff it maps b
\* to a.
C2_LinkSymmetry ==
  pc = "idle" =>
    \A a \in DOMAIN links :
      links[a] \in DOMAIN links /\ links[links[a]] = a

\* C3: between dispatch cycles a token is in the table iff its socket is
\* registered with the reactor.
C3_TableRegistered == pc = "idle" => pumps = poll

\* C3, its case: between two cycles, with an endpoint in the table and
\* registered, after accept, a peer insertion and a drop_pump (which left its
\* zombie) have all acted.
C3_Witness ==
  /\ pc = "idle"
  /\ zombie # {}
  /\ zombie \subseteq pumps
  /\ Cardinality(pumps) >= 2

\* C4: when a linked endpoint d gets hangup readiness, then by the time that
\* dispatch returns d and its peer c are both out of the table, deregistered,
\* and neither is linked.
C4_HangupClosesPair ==
  Returning =>
    \A p \in hupLinked :
      /\ {p[1], p[2]} \cap pumps = {}
      /\ {p[1], p[2]} \cap poll = {}
      /\ {p[1], p[2]} \cap DOMAIN links = {}

\* C5: the table never holds more than MAX_PUMPS endpoints.
C5_TableBounded == Cardinality(pumps) <= MAX_PUMPS

\* C6: accept() called with the table at the maximum inserts and registers
\* nothing.
C6_AcceptRefusedAtCapacity ==
  [][(/\ pc = "scan"
      /\ ROOT_TOKEN \in events' \ events
      /\ Cardinality(pumps) = MAX_PUMPS)
     => (pumps' = pumps /\ poll' = poll)]_vars

\* C7: no dangling peer: when an endpoint is removed, every endpoint whose
\* link names it is unlinked and put into the zombie queue by that removal.
C7_NoDanglingPeer ==
  [][\A x \in Removed :
       \A c \in pumps' :
         (c \in DOMAIN links /\ links[c] = x)
           => (c \notin DOMAIN links' /\ c \in zombie')]_vars

\* C8: when the insertion step of a dispatch is over, every peer a drain
\* yielded in the batch is in the table, registered, and linked both ways with
\* the token whose drain yielded it.
C8_PeersInserted ==
  (pc = "peers" /\ todo = {}) =>
    /\ \A t \in Tok : Cardinality({p \in inserted : p[1] = t}) = yielded[t]
    /\ \A p \in inserted :
         /\ p[2] \in pumps /\ p[2] \in poll
         /\ p[1] \in DOMAIN links /\ links[p[1]] = p[2]
         /\ p[2] \in DOMAIN links /\ links[p[2]] = p[1]

\* The bytes the drain loop of one step produced.
Drained == [i \in 1 .. (env.bytes - env'.bytes) |-> MaxBytes - env.bytes + i]

\* C9: fan-out never drops bytes: the event of a moves into the buffer of a's
\* peer b exactly the bytes that left a, behind what b already held; and what
\* an endpoint holds in its outbound buffer stays there, in order, through
\* every step but its own event (its flush) and its removal.
C9_FanOutKeepsBytes ==
  [][/\ \A a \in Handled \cap pumps :
          (fault' = "none" /\ a \in DOMAIN links /\ links[a] \in pumps)
            => LET b == links[a]
               IN  outb'[b] \o inb'[a] = outb[b] \o inb[a] \o Drained
     /\ \A b \in (pumps \cap pumps') \ Handled :
          IsPrefix(outb[b], outb'[b])]_vars

\* C9, its case: fan_out has pushed bytes into a buffer that was not empty,
\* and the buffer holds the old bytes followed by the new ones.
C9_Witness ==
  /\ fanned # <<>>
  /\ fanned[2] # <<>>
  /\ fanned[3] # <<>>
  /\ outb[fanned[1]] = fanned[2] \o fanned[3]

\* C10: failure isolation: only an endpoint marked stale in this batch, or one
\* that lost its linked peer to a removal, is ever removed or deregistered.
C10_FailureIsolation ==
  [][\A t \in pumps :
       (t \notin stale /\ t \notin orphan) => (t \in pumps' /\ t \in poll')]_vars

\* C11: an event whose token is not in the table is a no-op: it changes
\* neither the table, the links, the zombie queue, the stale set nor any
\* registration, it raises no panic, and the scan goes on.
C11_AbsentTokenNoOp ==
  [][(pc = "scan" /\ ~missing /\ missing')
     => /\ pumps' = pumps /\ free' = free
        /\ links' = links
        /\ zombie' = zombie
        /\ stale' = stale
        /\ poll' = poll /\ armed' = armed
        /\ fault' = "none"
        /\ pc' = "scan"]_vars

\* C11, its case: a scan that has handled an event of an endpoint met an
\* event whose token belongs to a vacated slot, with endpoints in the table.
C11_Witness ==
  /\ pc = "scan"
  /\ missing
  /\ free # <<>>
  /\ pumps # {}
  /\ seen # {}

\* C12: token reuse safety: a token that is not in the table is neither a key
\* nor a value of links, nor in the zombie queue.
C12_FreedTokenPurged ==
  \A t \in Tok \ pumps :
    /\ t \notin DOMAIN links
    /\ \A k \in DOMAIN links : links[k] # t
    /\ t \notin zombie

\* C13: when dispatch returns, every endpoint marked stale during its scan is
\* out of the table and deregistered.
C13_StaleRemovedAtReturn ==
  Returning => (stale \cap pumps = {} /\ stale \cap poll = {})

\* C13, its case: a dispatch that marked endpoints stale is about to return,
\* with other endpoints left in the table.
C13_Witness ==
  /\ Returning
  /\ Cardinality(stale) >= 2
  /\ pumps # {}

\* C14: at the end of an event the endpoint is reregistered iff the event did
\* not mark it stale.
C14_RearmedIffNotStale ==
  [][\A a \in Handled :
       fault' = "none" => (a \in armed' <=> a \notin stale')]_vars

\* C15: the event scan never changes the table: once the scan has handled an
\* event, nothing is inserted into or removed from the table until the scan
\* is over.
C15_ScanKeepsTable ==
  [][(pc = "scan" /\ events # {}) => pumps' = pumps]_vars

\* C16: stream integrity: for a linked pair (a, b) in the table, the bytes
\* pushed into b's outbound buffer are a prefix of the bytes a's drains
\* produced, in the same order and without duplication.
C16_StreamIntegrity ==
  \A a \in DOMAIN links \cap pumps :
    LET b == links[a]
    IN  (b \in pumps /\ b \in DOMAIN links /\ links[b] = a)
          => IsPrefix(sent[b], got[a])

\* C17: a would-block result is not an error: an endpoint whose event had
\* only successes and would-block results, and no hangup/error readiness, is
\* not marked stale and is reregistered by that event; and through the rest of
\* the dispatch, unless it lost its peer to a removal, it stays in the table
\* and registered, and, unless its peer is marked stale, keeps its link.
C17_WouldBlockIsNoError ==
  [][/\ \A a \in Handled :
          a \in calm' => (a \notin stale' /\ a \in armed')
     /\ \A t \in (calm \cap pumps) \ orphan :
          /\ t \in pumps' /\ t \in poll' /\ t \in armed'
          /\ (t \in DOMAIN links /\ links[t] \notin stale)
               => (t \in DOMAIN links' /\ links'[t] = links[t])]_vars

\* C18: peer lookups never fail: the unwrap on the peer's slot in fan_out and
\* fan_in never panics, and during every event scan every key and every value
\* of links is a token of the table.
C18_PeerLookupSucceeds ==
  /\ fault # "unwrap"
  /\ pc = "scan" =>
       \A k \in DOMAIN links : k \in pumps /\ links[k] \in pumps

\* C19: zombies are unlinked: between dispatch cycles no token of the zombie
\* queue is a key or a value of links.
C19_ZombiesUnlinked ==
  pc = "idle" =>
    \A z \in zombie :
      /\ z \notin DOMAIN links
      /\ \A k \in DOMAIN links : links[k] # z

=============================================================================
